---- MODULE Spec2Model ----
(***************************************************************************)
(* A model of src/webassembly/instance.rs: the construction of an Instance *)
(* (tables, linear memories, globals) from a module blueprint, the         *)
(* inspection accessors, and the dispatcher execute_fn.                    *)
(*                                                                         *)
(* Rust indices are 0-based; sequences here are 1-based, so element i of a *)
(* Rust Vec is element i+1 of the sequence that models it.  A panic is the *)
(* fatal fault of the program: phase becomes "fault" and nothing runs      *)
(* afterwards.                                                             *)
(***************************************************************************)
EXTENDS Integers, Sequences, FiniteSets, TLC

\* ------------------------------------------------------------------ bounds
MaxTableSize == 2
MaxTableInits == 2
MaxMems == 2
MaxPagesDecl == 2
MaxDataInits == 2
MaxGlobals == 2
\* growth steps the embedder makes in one run
MaxGrow == 1
\* bytes of one page of a Linear Memory, scaled down from 65536
PageSize == 2

\* ------------------------------------------------------------- helpers
SeqsUpTo(S, n) == UNION {[1..k -> S] : k \in 0..n}

\* Option<T>: None is -1, Some(x) is x >= 0
NoneV == -1

Zeros(n) == [i \in 1..n |-> 0]

\* x as u32 keeps the low 32 bits; the page counts of this model are far
\* below 2^32 (more than TLC's integers hold), where that is x itself
AsU32(x) == x

\* ------------------------------------------------ cranelift value types
Types == {"I32", "I64", "F32", "F64", "B1", "I32X4"}

\* ir::Type::bytes
TypeBytes(ty) ==
    CASE ty = "I32" -> 4
      [] ty = "I64" -> 8
      [] ty = "F32" -> 4
      [] ty = "F64" -> 8
      [] ty = "B1" -> 1
      [] ty = "I32X4" -> 16

\* --------------------------------------------- the function part of the
\* blueprint: signatures, functions, exports (the same in every run)

\* module.signatures: the returns of each signature
Signatures ==
    << <<>>, <<"I32">>, <<"I64">>, <<"F32">>, <<"F64">>, <<"B1">>,
       <<"I32", "I32">>, <<"I32X4">> >>

\* module.functions: function index -> signature index
Functions == <<1, 0, 1, 2, 3, 4, 5, 6, 7>>

\* the functions 0 .. NumImported-1 are imported, the others are local
NumImported == 1

\* Module::defined_func_index
defined_func_index(f) == IF f < NumImported THEN NoneV ELSE f - NumImported

\* code_buf.as_ptr() of compilation.functions[local]
CodeAddr(local) == 4096 + 16 * local

Names ==
    {"imp", "void", "i32", "i64", "f32", "f64", "b1", "two", "v128",
     "mem", "tab", "glob", "nope"}

\* module.exports.get(name)
Exports(name) ==
    CASE name = "imp" -> [kind |-> "Function", index |-> 0]
      [] name = "void" -> [kind |-> "Function", index |-> 1]
      [] name = "i32" -> [kind |-> "Function", index |-> 2]
      [] name = "i64" -> [kind |-> "Function", index |-> 3]
      [] name = "f32" -> [kind |-> "Function", index |-> 4]
      [] name = "f64" -> [kind |-> "Function", index |-> 5]
      [] name = "b1" -> [kind |-> "Function", index |-> 6]
      [] name = "two" -> [kind |-> "Function", index |-> 7]
      [] name = "v128" -> [kind |-> "Function", index |-> 8]
      [] name = "mem" -> [kind |-> "Memory", index |-> 0]
      [] name = "tab" -> [kind |-> "Table", index |-> 0]
      [] name = "glob" -> [kind |-> "Global", index |-> 0]
      [] OTHER -> [kind |-> "Absent", index |-> 0]

\* ------------------------------------------------------------------ state
VARIABLES
    debug_assertions,   \* the build: TRUE when debug_assert! is compiled in
    module,             \* the blueprint: tables, memories, globals, table_elements
    data_initializers,  \* the list passed to Instance::new
    phase,              \* "init", "live" (an Instance exists), "fault" (panicked)
    tables,             \* Instance.tables
    memories,           \* Instance.memories
    globals,            \* Instance.globals
    view,               \* the slice the last accessor returned
    pc,                 \* position in execute_fn: "idle", "resolved", "captured"
    fname,              \* func_name of the current or last execute_fn
    code_buf,           \* entry address of the resolved function
    imported_sig,       \* the returns of the resolved signature
    mem_base_addrs,     \* the captured array behind vmctx
    calls,              \* native calls made by the current or last execute_fn
    callCtx,            \* the array the native code was called with
    nativeRet,          \* what the native code returned (NoneV: nothing)
    ret                 \* what the last execute_fn returned

vars ==
    <<debug_assertions, module, data_initializers, phase, tables, memories,
      globals, view, pc, fname, code_buf, imported_sig, mem_base_addrs, calls,
      callCtx, nativeRet, ret>>

inputs == <<debug_assertions, module, data_initializers>>
instance == <<tables, memories, globals>>
exec ==
    <<pc, fname, code_buf, imported_sig, mem_base_addrs, calls, callCtx,
      nativeRet, ret>>

NoRet == [kind |-> "None", tag |-> "VOID", val |-> 0]

\* no execute_fn is running and the caller holds no result of one
ExecIdle ==
    /\ pc = "idle"
    /\ fname = ""
    /\ code_buf = 0
    /\ imported_sig = <<>>
    /\ mem_base_addrs = <<>>
    /\ calls = 0
    /\ callCtx = <<>>
    /\ nativeRet = NoneV
    /\ ret = NoRet

\* an accessor call ends the caller's hold on the last execute_fn result
ExecCleared ==
    /\ pc' = "idle"
    /\ fname' = ""
    /\ code_buf' = 0
    /\ imported_sig' = <<>>
    /\ mem_base_addrs' = <<>>
    /\ calls' = 0
    /\ callCtx' = <<>>
    /\ nativeRet' = NoneV
    /\ ret' = NoRet

\* the result of a step that may panic
Panicked == [ok |-> FALSE, v |-> <<>>]
Done(x) == [ok |-> TRUE, v |-> x]

\* ---------------------------------------------------------- Linear Memory
\* LinearMemory::new(pages, maximum), allocated at base address `base`
LinearMemoryNew(pages, maximum, base) ==
    [current |-> pages, maximum |-> maximum, base |-> base,
     data |-> Zeros(pages * PageSize)]

\* the address the allocator hands to the k-th memory of an Instance
FreshBase(k) == 65536 * (k + 1)

\* LinearMemory::base_addr
base_addr(mem) == mem.base

\* LinearMemory::grow by one page; the backing storage may move
GrowOnePage(mem, moved) ==
    [mem EXCEPT !.current = @ + 1,
                !.data = @ \o Zeros(PageSize),
                !.base = IF moved THEN @ + 8 ELSE @]

\* ------------------------------------------------------ Instance::new
\* Rust's v[offset .. offset + len] on a Vec of length n does not panic
RangeOk(offset, len, n) == offset + len <= n

\* the write loop storing the function index in place of the entry address
TableInitWriteIndex(tab, init) ==
    [j \in 1..Len(tab) |->
        IF j - 1 >= init.offset /\ j - 1 < init.offset + Len(init.elements)
        THEN init.elements[j - init.offset]
        ELSE tab[j]]

\* the table after the write loop of one initializer
TableInitWrite(tab, init) ==
    [j \in 1..Len(tab) |->
        IF j - 1 >= init.offset /\ j - 1 < init.offset + Len(init.elements)
        THEN CodeAddr(defined_func_index(init.elements[j - init.offset]))
        ELSE tab[j]]

\* one iteration of the loop over table_initializers
TableInitStep(tabs, init, dbg) ==
    IF dbg /\ init.base # NoneV THEN Panicked
    ELSE IF init.table_index >= Len(tabs) THEN Panicked
    ELSE IF ~RangeOk(init.offset, Len(init.elements), Len(tabs[init.table_index + 1]))
    THEN Panicked
    ELSE IF \E i \in 1..Len(init.elements) :
                defined_func_index(init.elements[i]) = NoneV
    THEN Panicked
    ELSE Done([tabs EXCEPT ![init.table_index + 1] = TableInitWrite(@, init)])

RECURSIVE TableInitLoop(_, _, _)
TableInitLoop(tabs, inits, dbg) ==
    IF inits = <<>> THEN Done(tabs)
    ELSE LET r == TableInitStep(tabs, Head(inits), dbg)
         IN IF r.ok THEN TableInitLoop(r.v, Tail(inits), dbg) ELSE Panicked

instantiate_tables(mod, dbg) ==
    TableInitLoop([t \in 1..Len(mod.tables) |-> Zeros(mod.tables[t])],
                  mod.table_elements, dbg)

\* the page count without the floor of one page
EffectivePagesNoFloor(pages_count) == AsU32(pages_count)

\* the page count a declared memory is created with
EffectivePages(pages_count) ==
    IF AsU32(pages_count) > 0 THEN AsU32(pages_count) ELSE 1

\* the copy started at the memory's first byte, the offset dropped
DataInitWriteAtZero(data, init) ==
    [j \in 1..Len(data) |->
        IF j - 1 < Len(init.data) THEN init.data[j] ELSE data[j]]

\* to_init.copy_from_slice(init.data)
DataInitWrite(data, init) ==
    [j \in 1..Len(data) |->
        IF j - 1 >= init.offset /\ j - 1 < init.offset + Len(init.data)
        THEN init.data[j - init.offset]
        ELSE data[j]]

\* one iteration of the loop over data_initializers
DataInitStep(mems, init, dbg) ==
    IF dbg /\ init.base # NoneV THEN Panicked
    ELSE IF init.memory_index >= Len(mems) THEN Panicked
    ELSE IF ~RangeOk(init.offset, Len(init.data), Len(mems[init.memory_index + 1].data))
    THEN Panicked
    ELSE Done([mems EXCEPT ![init.memory_index + 1].data = DataInitWrite(@, init)])

RECURSIVE DataInitLoop(_, _, _)
DataInitLoop(mems, inits, dbg) ==
    IF inits = <<>> THEN Done(mems)
    ELSE LET r == DataInitStep(mems, Head(inits), dbg)
         IN IF r.ok THEN DataInitLoop(r.v, Tail(inits), dbg) ELSE Panicked

instantiate_memories(mod, inits, dbg) ==
    DataInitLoop(
        [m \in 1..Len(mod.memories) |->
            LinearMemoryNew(EffectivePages(mod.memories[m].pages_count),
                            IF mod.memories[m].maximum = NoneV THEN NoneV
                            ELSE AsU32(mod.memories[m].maximum),
                            FreshBase(m - 1))],
        inits, dbg)

\* globals storage holding the declared initial values
InstantiateGlobalsDeclared(mod) ==
    [i \in 1..(Len(mod.globals) * 8) |->
        IF (i - 1) % 8 = 0 THEN mod.globals[((i - 1) \div 8) + 1] ELSE 0]

instantiate_globals(mod) == Zeros(Len(mod.globals) * 8)

\* Instance::new: tables, then memories, then globals; a panic in any of
\* them leaves no Instance
New ==
    /\ phase = "init"
    /\ LET t == instantiate_tables(module, debug_assertions)
           m == instantiate_memories(module, data_initializers, debug_assertions)
       IN IF t.ok /\ m.ok
          THEN /\ phase' = "live"
               /\ tables' = t.v
               /\ memories' = m.v
               /\ globals' = instantiate_globals(module)
          ELSE /\ phase' = "fault"
               /\ UNCHANGED instance
    /\ UNCHANGED <<inputs, view, exec>>

\* ------------------------------------------------------------ accessors
\* Instance::inspect_memory as a function of the memories
inspect_memory(mems, memory_index, address, len) ==
    IF memory_index >= Len(mems) THEN Panicked
    ELSE IF ~RangeOk(address, len, Len(mems[memory_index + 1].data)) THEN Panicked
    ELSE Done(SubSeq(mems[memory_index + 1].data, address + 1, address + len))

\* Instance::inspect_global as a function of the globals buffer
inspect_global(globs, global_index, ty) ==
    LET offset == global_index * 8
        len == TypeBytes(ty)
    IN IF ~RangeOk(offset, len, Len(globs)) THEN Panicked
       ELSE Done(SubSeq(globs, offset + 1, offset + len))

\* what an accessor call leaves: the slice, or the fatal fault
Returned(r) ==
    /\ IF r.ok THEN phase' = phase /\ view' = r.v
               ELSE phase' = "fault" /\ view' = <<>>
    /\ ExecCleared

InspectMemory(memory_index, address, len) ==
    /\ phase = "live" /\ pc = "idle"
    /\ Returned(inspect_memory(memories, memory_index, address, len))
    /\ UNCHANGED <<inputs, instance>>

InspectGlobal(global_index, ty) ==
    /\ phase = "live" /\ pc = "idle"
    /\ Returned(inspect_global(globals, global_index, ty))
    /\ UNCHANGED <<inputs, instance>>

\* pages added to the memories since construction
RECURSIVE PagesGrown(_)
PagesGrown(m) ==
    IF m = 0 THEN 0
    ELSE PagesGrown(m - 1) + memories[m].current
            - EffectivePages(module.memories[m].pages_count)

\* the embedder may grow the memory it got from memory_mut, within the
\* declared maximum
CanGrow(memory_index) ==
    LET mem == memories[memory_index + 1]
    IN /\ PagesGrown(Len(memories)) < MaxGrow
       /\ mem.maximum # NoneV => mem.current < mem.maximum

\* Instance::memory_mut, and what the embedder does with the handle
MemoryMut(memory_index) ==
    /\ phase = "live" /\ pc = "idle"
    /\ IF memory_index >= Len(memories)
       THEN /\ phase' = "fault"
            /\ UNCHANGED memories
       ELSE /\ phase' = phase
            /\ \/ UNCHANGED memories
               \/ /\ CanGrow(memory_index)
                  /\ \E moved \in BOOLEAN :
                        memories' = [memories EXCEPT ![memory_index + 1] =
                                        GrowOnePage(@, moved)]
    /\ view' = <<>>
    /\ ExecCleared
    /\ UNCHANGED <<inputs, tables, globals>>

\* ------------------------------------------------------------ execute_fn
NumericKinds == {"I32", "I64", "F32", "F64"}

\* InvokeResult: the tags a returned value carries
InvokeResult == {"VOID"} \cup NumericKinds

\* what the called native function may return
NativeVals == {0, 42}

Ok(tag, val) == [kind |-> "Ok", tag |-> tag, val |-> val]

\* the resolution taking the function index for the index of a local
\* function, imported or not
ResolveExportAnyFunction(name) ==
    LET e == Exports(name)
    IN IF e.kind # "Function" THEN Panicked
       ELSE Done([code |-> CodeAddr(e.index),
                  returns |-> Signatures[Functions[e.index + 1] + 1]])

\* the export lookup and the resolution to a local function: the index of
\* the compiled code buffer, or a panic
ResolveExport(name) ==
    LET e == Exports(name)
    IN IF e.kind # "Function" THEN Panicked
       ELSE IF defined_func_index(e.index) = NoneV THEN Panicked
       ELSE Done([code |-> CodeAddr(defined_func_index(e.index)),
                  returns |-> Signatures[Functions[e.index + 1] + 1]])

\* execute_fn up to the signature fetch
ExecResolve(func_name) ==
    /\ phase = "live" /\ pc = "idle"
    /\ fname' = func_name
    /\ LET r == ResolveExport(func_name)
       IN IF r.ok
          THEN /\ pc' = "resolved"
               /\ phase' = phase
               /\ code_buf' = r.v.code
               /\ imported_sig' = r.v.returns
          ELSE /\ pc' = "idle"
               /\ phase' = "fault"
               /\ code_buf' = 0
               /\ imported_sig' = <<>>
    /\ mem_base_addrs' = <<>>
    /\ calls' = 0
    /\ callCtx' = <<>>
    /\ nativeRet' = NoneV
    /\ ret' = NoRet
    /\ view' = <<>>
    /\ UNCHANGED <<inputs, instance>>

\* the base addresses collected last memory first
CollectBaseAddrsReversed(mems) ==
    [i \in 1..Len(mems) |-> base_addr(mems[Len(mems) + 1 - i])]

\* the base address of every memory, in memory order
CollectBaseAddrs(mems) == [i \in 1..Len(mems) |-> base_addr(mems[i])]

\* the capture taking the memories out of the Instance
ExecCaptureDraining ==
    /\ phase = "live" /\ pc = "resolved"
    /\ mem_base_addrs' = CollectBaseAddrs(memories)
    /\ memories' = <<>>
    /\ pc' = "captured"
    /\ UNCHANGED <<inputs, tables, globals, phase, view, fname, code_buf,
                   imported_sig, calls, callCtx, nativeRet, ret>>

\* execute_fn: the capture of mem_base_addrs and make_vmctx
ExecCapture ==
    /\ phase = "live" /\ pc = "resolved"
    /\ mem_base_addrs' = CollectBaseAddrs(memories)
    /\ pc' = "captured"
    /\ UNCHANGED <<inputs, instance, phase, view, fname, code_buf, imported_sig,
                   calls, callCtx, nativeRet, ret>>

\* the match deciding on the arity alone
DispatchBranchArityOnly(returns) ==
    IF Len(returns) = 0 THEN "VOID"
    ELSE IF Len(returns) = 1 THEN "I32" ELSE "panic"

\* the branch the match on the returns takes: the tag of the call it
\* makes, or "panic"
DispatchBranch(returns) ==
    IF Len(returns) = 0 THEN "VOID"
    ELSE IF Len(returns) = 1
         THEN IF returns[1] \in NumericKinds THEN returns[1] ELSE "panic"
         ELSE "panic"

\* execute_fn: the match on imported_sig.returns, with the native call
ExecDispatch ==
    /\ phase = "live" /\ pc = "captured"
    /\ LET b == DispatchBranch(imported_sig)
       IN IF b = "panic"
          THEN /\ phase' = "fault"
               /\ UNCHANGED <<calls, callCtx, nativeRet, ret>>
          ELSE /\ phase' = phase
               /\ calls' = calls + 1
               /\ callCtx' = mem_base_addrs
               /\ IF b = "VOID"
                  THEN nativeRet' = NoneV /\ ret' = Ok("VOID", 0)
                  ELSE \E v \in NativeVals :
                          nativeRet' = v /\ ret' = Ok(b, v)
    /\ pc' = "idle"
    /\ UNCHANGED <<inputs, instance, view, fname, code_buf, imported_sig,
                   mem_base_addrs>>

\* ------------------------------------------------------------ the inputs
\* Option<GlobalIndex>: the base of an initializer
Bases == {NoneV, 0}
Offsets == {0, 1}
\* element lists of table initializers: function 0 is imported, 1 and 2
\* are local
ElemLists == {<<>>, <<0>>, <<1>>, <<2>>, <<1, 2>>, <<2, 1>>, <<1, 0>>}
\* payloads of data initializers
DataLists == {<<>>, <<1>>, <<2>>, <<2, 1>>}

TableInitSet ==
    [table_index : {0}, base : Bases, offset : Offsets, elements : ElemLists]

DataInitSet ==
    [memory_index : {0, 1}, base : Bases, offset : Offsets, data : DataLists]

MemDeclSet(maxima) == [pages_count : 0..MaxPagesDecl, maximum : maxima]

\* a blueprint with one table and one initializer of it
DefaultTables == <<MaxTableSize>>
DefaultTableElements ==
    << [table_index |-> 0, base |-> NoneV, offset |-> 0, elements |-> <<1>>] >>
DefaultMemories == << [pages_count |-> 0, maximum |-> NoneV] >>
DefaultGlobals == <<7>>

Unbuilt ==
    /\ phase = "init"
    /\ tables = <<>>
    /\ memories = <<>>
    /\ globals = <<>>
    /\ view = <<>>
    /\ ExecIdle

\* no table or one table, and the table initializers, vary
InitTables ==
    /\ debug_assertions \in BOOLEAN
    /\ \E ts \in SeqsUpTo(0..MaxTableSize, 1),
          es \in SeqsUpTo(TableInitSet, MaxTableInits) :
            module = [tables |-> ts, table_elements |-> es,
                      memories |-> DefaultMemories, globals |-> DefaultGlobals]
    /\ data_initializers = <<>>
    /\ Unbuilt

\* the memories, all declared alike with no page or the most pages, and
\* the data initializers vary
InitMemories ==
    /\ debug_assertions \in BOOLEAN
    /\ \E n \in 0..MaxMems, p \in {0, MaxPagesDecl} :
            module = [tables |-> DefaultTables,
                      table_elements |-> DefaultTableElements,
                      memories |->
                        [m \in 1..n |-> [pages_count |-> p, maximum |-> NoneV]],
                      globals |-> DefaultGlobals]
    /\ data_initializers \in SeqsUpTo(DataInitSet, MaxDataInits)
    /\ Unbuilt

\* the declarations of memories and globals vary
InitDecls ==
    /\ debug_assertions \in BOOLEAN
    /\ \E ms \in SeqsUpTo(MemDeclSet({NoneV, MaxPagesDecl + 1}), MaxMems),
          gs \in SeqsUpTo({0, 7}, MaxGlobals) :
            module = [tables |-> DefaultTables,
                      table_elements |-> DefaultTableElements,
                      memories |-> ms, globals |-> gs]
    /\ data_initializers = <<>>
    /\ Unbuilt

\* the number of memories, all declared alike, and of globals vary
Init ==
    /\ debug_assertions \in BOOLEAN
    /\ \E n \in 0..MaxMems, d \in MemDeclSet({NoneV, MaxPagesDecl + 1}),
          g \in 0..MaxGlobals :
            module = [tables |-> DefaultTables,
                      table_elements |-> DefaultTableElements,
                      memories |-> [m \in 1..n |-> d],
                      globals |-> [i \in 1..g |-> 7]]
    /\ data_initializers = <<>>
    /\ Unbuilt

\* construction alone, over the blueprints and initializer lists
InitNew == InitTables \/ InitMemories \/ InitDecls
NextNew == New
SpecNew == InitNew /\ [][NextNew]_vars

\* construction followed by any sequence of calls
Next ==
    \/ New
    \/ \E m \in 0..MaxMems, a \in {0, PageSize}, l \in {1, PageSize} :
            InspectMemory(m, a, l)
    \/ \E g \in 0..MaxGlobals, ty \in Types : InspectGlobal(g, ty)
    \/ \E m \in 0..MaxMems : MemoryMut(m)
    \/ \E n \in Names : ExecResolve(n)
    \/ ExecCapture
    \/ ExecDispatch

Spec == Init /\ [][Next]_vars

\* ================================================================ claims
\* the returns of the signature of the function a name exports
ReturnsOf(name) == Signatures[Functions[Exports(name).index + 1] + 1]

\* the name is exported as a locally defined function
LocalFunctionExport(name) ==
    /\ Exports(name).kind = "Function"
    /\ Exports(name).index >= NumImported

\* an execute_fn call was made and is over
CallEnded == fname # "" /\ pc = "idle"

Max(a, b) == IF a >= b THEN a ELSE b

\* C1: an execute_fn call on a local function with two or more returns, or
\* with one return of a non-numeric kind, ends with an Err value returned
\* to the caller, without a fatal fault and without a native call.
C1_UnsupportedReturnsErr ==
    (/\ CallEnded
     /\ LocalFunctionExport(fname)
     /\ \/ Len(ReturnsOf(fname)) >= 2
        \/ Len(ReturnsOf(fname)) = 1 /\ ReturnsOf(fname)[1] \notin NumericKinds)
    => (ret.kind = "Err" /\ phase # "fault" /\ calls = 0)

\* C2: an execute_fn call on a local function with no return, or with one
\* return of kind I32, I64, F32 or F64, makes exactly one native call and
\* returns Ok with the tag of the signature (VOID for no return), carrying
\* what the native code returned.
C2_SupportedReturnsTagged ==
    (/\ CallEnded
     /\ LocalFunctionExport(fname)
     /\ \/ Len(ReturnsOf(fname)) = 0
        \/ Len(ReturnsOf(fname)) = 1 /\ ReturnsOf(fname)[1] \in NumericKinds)
    => /\ phase = "live"
       /\ calls = 1
       /\ ret.kind = "Ok"
       /\ ret.tag \in InvokeResult
       /\ IF Len(ReturnsOf(fname)) = 0
          THEN ret.tag = "VOID"
          ELSE ret.tag = ReturnsOf(fname)[1] /\ ret.val = nativeRet

C2_Witness ==
    /\ phase = "live" /\ CallEnded
    /\ fname = "i64"
    /\ ret = Ok("I64", 42)
    /\ calls = 1

\* C3: an execute_fn call with a name that is absent, that exports a
\* memory, a table or a global, or that exports an imported function ends
\* in the fatal fault: nothing is returned and no native call is made.
C3_BadExportIsFatal ==
    (fname # "" /\ ~LocalFunctionExport(fname))
    => (phase = "fault" /\ pc = "idle" /\ ret.kind = "None" /\ calls = 0)

C3_Witness ==
    /\ fname = "mem"
    /\ phase = "fault"
    /\ Len(memories) > 0

\* C4 as stated: after a successful construction every data initializer
\* (m, o, bytes) of the list reads back: inspect_memory(m, o, len(bytes))
\* is bytes, for any list of initializers.
C4_EveryInitializerReadsBack ==
    phase = "live" =>
        \A k \in 1..Len(data_initializers) :
            LET init == data_initializers[k]
            IN inspect_memory(memories, init.memory_index, init.offset,
                              Len(init.data)) = Done(init.data)

\* initializer k2 writes a byte of the range initializer k1 wrote
DataOverlap(k1, k2) ==
    LET a == data_initializers[k1]
        b == data_initializers[k2]
    IN /\ a.memory_index = b.memory_index
       /\ \E x \in a.offset..(a.offset + Len(a.data) - 1) :
             x >= b.offset /\ x < b.offset + Len(b.data)

\* C4 amended: after a successful construction a data initializer
\* (m, o, bytes) reads back, inspect_memory(m, o, len(bytes)) = bytes,
\* provided no later initializer of the list writes into its range of the
\* same memory.
C4_InitializerReadsBackUnlessOverwritten ==
    phase = "live" =>
        \A k \in 1..Len(data_initializers) :
            LET init == data_initializers[k]
            IN (\A k2 \in (k + 1)..Len(data_initializers) : ~DataOverlap(k, k2))
               => inspect_memory(memories, init.memory_index, init.offset,
                                 Len(init.data)) = Done(init.data)

C4_Witness ==
    /\ phase = "live"
    /\ Len(data_initializers) = 2
    /\ data_initializers[1].memory_index = data_initializers[2].memory_index
    /\ data_initializers[1].offset = 1
    /\ data_initializers[1].data = <<2, 1>>
    /\ data_initializers[2].offset = 0
    /\ data_initializers[2].data = <<1>>
    /\ memories[data_initializers[1].memory_index + 1].data = <<1, 2, 1, 0>>

\* the initializers of table t (0-based) that cover its slot s (0-based)
Covering(t, s) ==
    {k \in 1..Len(module.table_elements) :
        LET init == module.table_elements[k]
        IN /\ init.table_index = t
           /\ s >= init.offset
           /\ s < init.offset + Len(init.elements)}

\* the entry address of the code of the function a table initializer lists
\* for slot s
ElementAddr(init, s) ==
    CodeAddr(defined_func_index(init.elements[s - init.offset + 1]))

\* C5 as stated: after a successful construction, for every table
\* initializer (t, o, e) and every j < len(e), slot o+j of table t holds the
\* entry address of the code of e[j]; a slot no initializer covers is zero.
C5_EverySlotHoldsItsElement ==
    phase = "live" =>
        \A t \in 0..(Len(tables) - 1) : \A s \in 0..(Len(tables[t + 1]) - 1) :
            /\ \A k \in Covering(t, s) :
                  tables[t + 1][s + 1] = ElementAddr(module.table_elements[k], s)
            /\ Covering(t, s) = {} => tables[t + 1][s + 1] = 0

\* C5 amended: after a successful construction, for every table
\* initializer (t, o, e) and every j < len(e), slot o+j of table t holds the
\* entry address of the code of e[j] unless a later initializer of the list
\* also covers that slot of that table; a slot no initializer covers is zero.
C5_SlotHoldsLastElement ==
    phase = "live" =>
        \A t \in 0..(Len(tables) - 1) : \A s \in 0..(Len(tables[t + 1]) - 1) :
            /\ \A k \in Covering(t, s) :
                  (\A k2 \in Covering(t, s) : k2 <= k)
                  => tables[t + 1][s + 1] = ElementAddr(module.table_elements[k], s)
            /\ Covering(t, s) = {} => tables[t + 1][s + 1] = 0

C5_Witness ==
    /\ phase = "live"
    /\ Len(module.table_elements) = 2
    /\ module.table_elements[1].offset = 1
    /\ module.table_elements[1].elements = <<2>>
    /\ module.table_elements[2].offset = 0
    /\ module.table_elements[2].elements = <<1>>
    /\ tables = << <<CodeAddr(0), CodeAddr(1)>> >>

\* C6: every memory the blueprint declares is built with max(declared
\* pages, 1) pages and the declared maximum, so that it holds
\* max(declared pages, 1) * PageSize bytes; a memory declared with 0 pages
\* has one page.
C6_MemoryHasAtLeastOnePage ==
    phase = "live" =>
        /\ Len(memories) = Len(module.memories)
        /\ \A m \in 1..Len(memories) :
              /\ memories[m].current = Max(module.memories[m].pages_count, 1)
              /\ memories[m].maximum = module.memories[m].maximum
              /\ Len(memories[m].data)
                    = Max(module.memories[m].pages_count, 1) * PageSize

C6_Witness ==
    /\ phase = "live"
    /\ Len(memories) = 2
    /\ module.memories[1].pages_count = 0
    /\ module.memories[1].maximum # NoneV
    /\ memories[1].current = 1
    /\ module.memories[2].pages_count = 2

\* some table or data initializer has a base that is not a constant offset
NonConstantBase ==
    \/ \E k \in 1..Len(module.table_elements) :
          module.table_elements[k].base # NoneV
    \/ \E k \in 1..Len(data_initializers) : data_initializers[k].base # NoneV

\* C7: when a table initializer or a data initializer has a base that is
\* not a constant offset, Instance::new ends in the fatal fault and no
\* Instance exists.
C7_NonConstantBaseIsFatal ==
    (phase # "init" /\ NonConstantBase)
    => (phase = "fault" /\ tables = <<>> /\ memories = <<>> /\ globals = <<>>)

\* the collections have the sizes the blueprint declares
ShapeOk ==
    /\ Len(tables) = Len(module.tables)
    /\ \A t \in 1..Len(tables) : Len(tables[t]) = module.tables[t]
    /\ Len(memories) = Len(module.memories)
    /\ Len(globals) = 8 * Len(module.globals)

\* C8: from a constructed Instance on, whatever is called, the number of
\* tables, the length of each table, the number of memories and the length
\* of the globals buffer are the ones the blueprint declares, before and
\* after every step.
C8_ShapeIsFixed == [][phase = "live" => (ShapeOk /\ ShapeOk')]_vars

C8_Witness ==
    /\ phase = "live"
    /\ ret.kind = "Ok"
    /\ Len(memories) = 2
    /\ memories[2].current > Max(module.memories[2].pages_count, 1)
    /\ Len(globals) = 16

\* inspect_global(i, ty) on the fresh Instance is a view of TypeBytes(ty)
\* bytes, the bytes of the globals buffer from offset 8 * i on, all zero
GlobalViewOk(i, ty) ==
    LET r == inspect_global(globals, i, ty)
    IN /\ r.ok
       /\ Len(r.v) = TypeBytes(ty)
       /\ \A j \in 1..Len(r.v) : r.v[j] = globals[8 * i + j] /\ r.v[j] = 0

\* C9 as stated: right after construction, for every global index i below
\* the global count and every type ty, inspect_global(i, ty) is a view of
\* TypeBytes(ty) zero bytes of the globals buffer from offset 8 * i on.
C9_EveryTypeViewsZeros ==
    phase = "live" =>
        \A i \in 0..(Len(module.globals) - 1) : \A ty \in Types :
            GlobalViewOk(i, ty)

\* C9 amended: right after construction, for every global index i below
\* the global count and every type ty of at most 8 bytes (I32, I64, F32
\* and F64 among them), inspect_global(i, ty) is a view of TypeBytes(ty)
\* zero bytes of the globals buffer from offset 8 * i on, whatever initial
\* value the blueprint declares.
C9_SlotSizedTypeViewsZeros ==
    phase = "live" =>
        \A i \in 0..(Len(module.globals) - 1) :
            \A ty \in {x \in Types : TypeBytes(x) <= 8} : GlobalViewOk(i, ty)

C9_Witness ==
    /\ phase = "live"
    /\ module.globals = <<7, 7>>
    /\ inspect_global(globals, 1, "I64") = Done(Zeros(8))

\* the base address of every memory, index by index
CurrentBases == [i \in 1..Len(memories) |-> memories[i].base]

\* C10: the array captured in execute_fn has one entry per memory, entry i
\* the base address of memory i; it is captured after the export resolved
\* and before the native call, and neither between the capture and the
\* call nor by the time the call is made has a memory moved: the array the
\* native code is called with still holds every memory's base address.
C10_ContextHoldsCurrentBases ==
    /\ pc = "captured" =>
          /\ LocalFunctionExport(fname)
          /\ calls = 0
          /\ mem_base_addrs = CurrentBases
    /\ calls = 1 =>
          /\ Len(callCtx) = Len(memories)
          /\ callCtx = CurrentBases

C10_Witness ==
    /\ calls = 1
    /\ Len(memories) = 2
    /\ memories[1].base # FreshBase(0)
    /\ callCtx = <<memories[1].base, memories[2].base>>

====
